---- MODULE Spec2Model ----
(***************************************************************************)
(* Bank agent: the tool adapter (bank_agent/tools/tool.py) over the SQLite *)
(* query service (bank_agent/entities/database.py).                        *)
(*                                                                         *)
(* State: the five tables of the store, the per-session state bag of the   *)
(* caller's tool context, a record of the last call with the envelope it   *)
(* returned and the store methods it invoked, and the wall clock that      *)
(* CURRENT_TIMESTAMP reads (whole seconds).                                *)
(***************************************************************************)
EXTENDS Integers, Sequences, FiniteSets, TLC

VARIABLES customers, accounts, transactions, complaint_types, complaints,
          state, call, resp, queries, ret, clock, connections,
          CUSTOMER_CART, cart_call, cart_ret,
          callback_state, time, returns

vars == <<customers, accounts, transactions, complaint_types, complaints,
          state, call, resp, queries, ret, clock, connections,
          CUSTOMER_CART, cart_call, cart_ret,
          callback_state, time, returns>>

tables == <<customers, accounts, transactions, complaint_types, complaints>>

\* the bank agent's part of the state, and the customer service agent's
bank == <<tables, state, call, resp, queries, ret, clock, connections>>
shop == <<CUSTOMER_CART, cart_call, cart_ret>>
limiter == <<callback_state, time, returns>>

(***************************************************************************)
(* Bounds of the model                                                     *)
(***************************************************************************)
MaxId == 3              \* ids tried by callers: 0..MaxId (0 is falsy, MaxId unused)
MaxLimit == 4           \* integer limit and offset values tried: -1..MaxLimit
MaxComplaints == 3      \* rows the complaints table may grow to
MaxTransactions == 6    \* rows the transactions table may grow to
MaxAccounts == 3        \* rows the accounts table may grow to
MaxClock == 6           \* the last second the wall clock reaches

Sessions == {"s1", "s2"}

(***************************************************************************)
(* Python values as they arrive in the loosely typed bags.  One record     *)
(* shape for every kind, so that values of different kinds compare.        *)
(***************************************************************************)
IntV(n) == [k |-> "int", n |-> n, s |-> ""]
BoolV(b) == [k |-> "bool", n |-> IF b THEN 1 ELSE 0, s |-> ""]
\* a non-numeric string
StrV(s) == [k |-> "str", n |-> 0, s |-> s]
\* the decimal string of the integer n, e.g. "5"
NumStrV(n) == [k |-> "numstr", n |-> n, s |-> ""]
\* the fractional number n + 0.5 (n >= 0)
FloatV(n) == [k |-> "float", n |-> n, s |-> ".5"]
\* the ISO date string of day n of May 2025
DateV(n) == [k |-> "date", n |-> n, s |-> ""]
NoneV == [k |-> "none", n |-> 0, s |-> ""]
\* the key is not in the mapping
Missing == [k |-> "missing", n |-> 0, s |-> ""]

\* Python truthiness
Truthy(v) ==
    CASE v.k = "int" -> v.n # 0
      [] v.k = "bool" -> v.n # 0
      [] v.k = "str" -> v.s # ""
      [] v.k = "numstr" -> TRUE
      [] v.k = "float" -> TRUE
      [] v.k = "date" -> TRUE
      [] OTHER -> FALSE

\* dict.get(key): None when the key is absent
Get(d, key) == IF d[key] = Missing THEN NoneV ELSE d[key]

\* dict.get(key, default)
GetDefault(d, key, default) == IF d[key] = Missing THEN default ELSE d[key]

\* str(v) inside an f-string: 1 and "1" print alike
Fmt(v) ==
    CASE v.k = "int" -> NumStrV(v.n)
      [] v.k = "bool" -> StrV(IF v.n = 1 THEN "True" ELSE "False")
      [] v.k = "none" -> StrV("None")
      [] v.k = "float" -> [k |-> "str", n |-> v.n, s |-> ".5"]
      [] OTHER -> v

\* The integer an INTEGER column equals when compared with the bound
\* parameter v (SQLite applies numeric affinity to the parameter);
\* NoMatch when no integer row can equal it.
NoMatch == -1000

SqlInt(v) ==
    CASE v.k = "int" -> v.n
      [] v.k = "bool" -> v.n
      [] v.k = "numstr" -> v.n
      [] OTHER -> NoMatch

(***************************************************************************)
(* Python int(): the outcome is a value or the exception it raises         *)
(***************************************************************************)
PyInt(v) ==
    CASE v.k = "int" -> [exc |-> "", n |-> v.n]
      [] v.k = "bool" -> [exc |-> "", n |-> v.n]
      [] v.k = "numstr" -> [exc |-> "", n |-> v.n]
      [] v.k = "float" -> [exc |-> "", n |-> v.n]
      [] v.k = "none" -> [exc |-> "TypeError", n |-> 0]
      [] OTHER -> [exc |-> "ValueError", n |-> 0]

(***************************************************************************)
(* The response envelope                                                   *)
(***************************************************************************)
\* error is None, or a message: its fixed text, the values it interpolates
\* (a1, a2, names) and, where it embeds str(e), the exception e
NoError ==
    [none |-> TRUE, text |-> "", a1 |-> NoneV, a2 |-> NoneV, names |-> <<>>, e |-> ""]

Error(text, a1, a2) ==
    [none |-> FALSE, text |-> text, a1 |-> a1, a2 |-> a2, names |-> <<>>, e |-> ""]

ErrorExc(text, e) ==
    [none |-> FALSE, text |-> text, a1 |-> NoneV, a2 |-> NoneV, names |-> <<>>, e |-> e]

ErrorNames(text, names) ==
    [none |-> FALSE, text |-> text, a1 |-> NoneV, a2 |-> NoneV, names |-> names, e |-> ""]

\* The fields a caller passes to a response model; absent fields are None.
Fields ==
    [success |-> TRUE, message |-> "", error |-> NoError, status |-> "",
     customer |-> <<>>, account |-> <<>>, accounts |-> <<>>, balance |-> <<>>,
     account_id |-> NoneV, customer_id |-> NoneV, complaint_id |-> NoneV,
     transactions |-> <<>>, complaint |-> <<>>, complaints |-> <<>>,
     start_date |-> NoneV, end_date |-> NoneV, transaction_type |-> NoneV,
     pagination |-> <<>>, currency |-> "", as_of |-> <<>>,
     offers |-> <<>>, personalized |-> <<>>]

\* Mutation of set_success_based_on_error: success is left as passed
set_success_as_passed(f) == f

\* @validator("error", always=True): a set error forces success to False
set_success_based_on_error(f) ==
    IF ~f.error.none THEN [f EXCEPT !.success = FALSE] ELSE f

\* Optional[str] fields accept None and strings only
StrFieldOk(v) == v.k \in {"none", "str", "numstr", "date"}

\* ToolResponse(...).model_dump(): field validation, then the validator.
\* exc is "" or the exception the constructor raised.
ToolResponse(f) ==
    IF /\ StrFieldOk(f.account_id) /\ StrFieldOk(f.customer_id)
       /\ StrFieldOk(f.complaint_id) /\ StrFieldOk(f.transaction_type)
       /\ StrFieldOk(f.start_date) /\ StrFieldOk(f.end_date)
    THEN [exc |-> "", env |-> set_success_based_on_error(f)]
    ELSE [exc |-> "ValidationError", env |-> f]

\* a failure envelope: Response(success=False, error=err).model_dump()
Failure(err) == ToolResponse([Fields EXCEPT !.success = FALSE, !.error = err]).env

\* a response built inside a try block: a constructor that raises lands in
\* the except clause, which returns the failure envelope with str(e)
Shape(f, handler) ==
    LET r == ToolResponse(f)
    IN  IF r.exc = "" THEN r.env ELSE Failure(ErrorExc(handler, r.exc))

\* what the caller of a tool sees: an envelope, or an exception propagated
Returned(env) == [raised |-> "", env |-> env]

Propagated(exc) == [raised |-> exc, env |-> Fields]

(***************************************************************************)
(* The store.  A table is a set of rows; a row is a record of its columns. *)
(* Dates are day numbers of May 2025, timestamps are integers.             *)
(***************************************************************************)
Today == 31

\* the first second of the run; the seeded rows are older
Start == 5

SeedCustomers ==
    { [id |-> 1, name |-> "John Doe", email |-> "john.doe@example.com",
       phone |-> "555-123-4567", address |-> "123 Main St"],
      [id |-> 2, name |-> "Jane Smith", email |-> "jane.smith@example.com",
       phone |-> "555-987-6543", address |-> "456 Oak Ave"] }

SeedAccounts ==
    { [id |-> 1, customer_id |-> 1, account_number |-> "ACC1", balance |-> 100,
       account_type |-> "Savings", account_status |-> "Active", created_at |-> 1],
      [id |-> 2, customer_id |-> 2, account_number |-> "ACC2", balance |-> 250,
       account_type |-> "Checking", account_status |-> "Active", created_at |-> 2] }

SeedTransactions ==
    { [id |-> 1, account_id |-> 1, amount |-> 10, type |-> "Deposit",
       description |-> "d", transaction_date |-> 1, created_at |-> 1],
      [id |-> 2, account_id |-> 1, amount |-> 20, type |-> "Withdrawal",
       description |-> "d", transaction_date |-> 10, created_at |-> 2],
      [id |-> 3, account_id |-> 1, amount |-> 30, type |-> "Deposit",
       description |-> "d", transaction_date |-> 20, created_at |-> 3],
      [id |-> 4, account_id |-> 2, amount |-> 40, type |-> "Deposit",
       description |-> "d", transaction_date |-> 10, created_at |-> 4] }

\* _initialize_default_data: the six default complaint types
default_types ==
    { [id |-> 1, name |-> "Account Issue"], [id |-> 2, name |-> "Transaction Problem"],
      [id |-> 3, name |-> "Card Issue"], [id |-> 4, name |-> "Internet Banking"],
      [id |-> 5, name |-> "Loan Query"], [id |-> 6, name |-> "Other"] }

\* Mutation of ComplaintRow: the priority passed is dropped for the default
ComplaintRow_PriorityIgnored(id, customer_id, type_id, title, description, priority, created_at) ==
    [id |-> id, customer_id |-> customer_id, type_id |-> type_id, title |-> title,
     description |-> description, status |-> "Open", priority |-> StrV("Medium"),
     created_at |-> created_at, updated_at |-> created_at, resolved_at |-> NoneV]

\* a complaints row; resolved_at is NoneV while the column is NULL
ComplaintRow(id, customer_id, type_id, title, description, priority, created_at) ==
    [id |-> id, customer_id |-> customer_id, type_id |-> type_id, title |-> title,
     description |-> description, status |-> "Open", priority |-> priority,
     created_at |-> created_at, updated_at |-> created_at, resolved_at |-> NoneV]

SeedComplaints ==
    { ComplaintRow(1, 1, 1, StrV("T1"), StrV("D1"), StrV("High"), 1),
      ComplaintRow(2, 2, 2, StrV("T2"), StrV("D2"), StrV("Low"), 2) }

\* Mutation of TxBefore: ORDER BY transaction_date DESC only
TxBefore_DateOnly(a, b) ==
    \/ a.transaction_date > b.transaction_date
    \/ a.transaction_date = b.transaction_date /\ a.id < b.id

\* ORDER BY transaction_date DESC, created_at DESC (rowid breaks a tie)
TxBefore(a, b) ==
    \/ a.transaction_date > b.transaction_date
    \/ a.transaction_date = b.transaction_date /\ a.created_at > b.created_at
    \/ a.transaction_date = b.transaction_date /\ a.created_at = b.created_at /\ a.id < b.id

\* ORDER BY created_at DESC (rowid breaks a tie)
CreatedBefore(a, b) ==
    \/ a.created_at > b.created_at
    \/ a.created_at = b.created_at /\ a.id < b.id

RECURSIVE OrderTx(_)
OrderTx(S) ==
    IF S = {} THEN <<>>
    ELSE LET first == CHOOSE a \in S : \A b \in S \ {a} : TxBefore(a, b)
         IN  <<first>> \o OrderTx(S \ {first})

RECURSIVE OrderCreated(_)
OrderCreated(S) ==
    IF S = {} THEN <<>>
    ELSE LET first == CHOOSE a \in S : \A b \in S \ {a} : CreatedBefore(a, b)
         IN  <<first>> \o OrderCreated(S \ {first})

\* Database.verify_customer
db_verify_customer(customer_id) ==
    \E r \in customers : r.id = SqlInt(customer_id)

\* Database.get_customer: the set holding the row, empty for None
db_get_customer(customer_id) ==
    {r \in customers : r.id = SqlInt(customer_id)}

\* Mutation of db_get_customer_account: the owner is not part of the WHERE
db_get_customer_account_any_owner(customer_id, account_id) ==
    {r \in accounts : r.id = SqlInt(account_id)}

\* Database.get_customer_account: WHERE id = ? AND customer_id = ?
db_get_customer_account(customer_id, account_id) ==
    {r \in accounts : r.id = SqlInt(account_id) /\ r.customer_id = SqlInt(customer_id)}

\* Database.get_customer_accounts: ORDER BY created_at DESC
db_get_customer_accounts(customer_id) ==
    OrderCreated({r \in accounts : r.customer_id = SqlInt(customer_id)})

\* Database.get_account_balance: the set holding the balance, empty for None
db_get_account_balance(account_id) ==
    {r.balance : r \in {a \in accounts : a.id = SqlInt(account_id)}}

\* LIMIT ? OFFSET ? on an ordered result: a negative OFFSET skips nothing,
\* a negative LIMIT puts no upper bound on the rows returned
LimitOffset(rows, limit, offset) ==
    LET skip == IF offset < 0 THEN 0 ELSE offset
        rest == IF skip >= Len(rows) THEN <<>> ELSE SubSeq(rows, skip + 1, Len(rows))
    IN  IF limit < 0 \/ limit >= Len(rest) THEN rest ELSE SubSeq(rest, 1, limit)

\* Database.get_account_transactions
db_get_account_transactions(account_id, limit, offset) ==
    LimitOffset(OrderTx({t \in transactions : t.account_id = SqlInt(account_id)}),
                limit, offset)

\* Mutation of db_get_transactions_by_date_range: the end date is excluded
db_get_transactions_by_date_range_open(account_id, start_date, end_date) ==
    OrderTx({t \in transactions :
                /\ t.account_id = SqlInt(account_id)
                /\ start_date.n <= t.transaction_date
                /\ t.transaction_date < end_date.n})

\* Database.get_transactions_by_date_range: BETWEEN compares the ISO strings
db_get_transactions_by_date_range(account_id, start_date, end_date) ==
    OrderTx({t \in transactions :
                /\ t.account_id = SqlInt(account_id)
                /\ start_date.n <= t.transaction_date
                /\ t.transaction_date <= end_date.n})

\* Mutation of db_get_transactions_by_type: the account is not part of the WHERE
db_get_transactions_by_type_any_account(account_id, transaction_type) ==
    OrderTx({t \in transactions :
                /\ transaction_type.k = "str"
                /\ t.type = transaction_type.s})

\* Database.get_transactions_by_type: exact match on the type text
db_get_transactions_by_type(account_id, transaction_type) ==
    OrderTx({t \in transactions :
                /\ t.account_id = SqlInt(account_id)
                /\ transaction_type.k = "str"
                /\ t.type = transaction_type.s})

\* SELECT c.*, ct.name as complaint_type_name FROM complaints c JOIN complaint_types ct
Joined ==
    { [id |-> c.id, customer_id |-> c.customer_id, type_id |-> c.type_id,
       title |-> c.title, description |-> c.description, status |-> c.status,
       priority |-> c.priority, created_at |-> c.created_at,
       updated_at |-> c.updated_at, resolved_at |-> c.resolved_at,
       complaint_type_name |-> (CHOOSE ct \in complaint_types : ct.id = c.type_id).name]
      : c \in {x \in complaints : \E ct \in complaint_types : ct.id = x.type_id} }

\* Database.get_customer_complaints
db_get_customer_complaints(customer_id, limit, offset) ==
    LimitOffset(OrderCreated({c \in Joined : c.customer_id = SqlInt(customer_id)}),
                limit, offset)

\* Database.get_complaint_by_id: "if customer_id:" picks the scoped query
db_get_complaint_by_id(complaint_id, customer_id) ==
    IF Truthy(customer_id)
    THEN {c \in Joined : c.id = SqlInt(complaint_id) /\ c.customer_id = SqlInt(customer_id)}
    ELSE {c \in Joined : c.id = SqlInt(complaint_id)}

\* Mutation of foreign_keys: the constraints are not enforced
foreign_keys_off(customer_id, type_id) == TRUE

\* FOREIGN KEY (customer_id) REFERENCES customers(id), FOREIGN KEY (type_id)
\* REFERENCES complaint_types(id), enforced by PRAGMA foreign_keys = ON
foreign_keys(customer_id, type_id) ==
    /\ \E r \in customers : r.id = SqlInt(customer_id)
    /\ \E ct \in complaint_types : ct.id = SqlInt(type_id)

\* Mutation of db_create_complaint: the row is inserted already closed
db_create_complaint_closed(customer_id, type_id, title, description, priority) ==
    LET ids == {c.id : c \in complaints}
        lastrowid == IF ids = {} THEN 1
                     ELSE (CHOOSE m \in ids : \A i \in ids : i <= m) + 1
        now == clock
    IN  IF \/ NoneV \in {customer_id, type_id, title, description, priority}
           \/ ~foreign_keys(customer_id, type_id)
        THEN [exc |-> "IntegrityError", id |-> 0, rows |-> {}]
        ELSE [exc |-> "", id |-> lastrowid,
              rows |-> {[ComplaintRow(lastrowid, SqlInt(customer_id), SqlInt(type_id),
                                      title, description, priority, now)
                            EXCEPT !.status = "Closed", !.resolved_at = IntV(now)]}]

\* The row Database.create_complaint inserts, or the constraint that fails:
\* NOT NULL columns and the two foreign keys.
db_create_complaint(customer_id, type_id, title, description, priority) ==
    LET ids == {c.id : c \in complaints}
        lastrowid == IF ids = {} THEN 1
                     ELSE (CHOOSE m \in ids : \A i \in ids : i <= m) + 1
        \* created_at and updated_at DEFAULT CURRENT_TIMESTAMP
        now == clock
    IN  IF \/ NoneV \in {customer_id, type_id, title, description, priority}
           \/ ~foreign_keys(customer_id, type_id)
        THEN [exc |-> "IntegrityError", id |-> 0, rows |-> {}]
        ELSE [exc |-> "", id |-> lastrowid,
              rows |-> {ComplaintRow(lastrowid, SqlInt(customer_id), SqlInt(type_id),
                                     title, description, priority, now)}]

\* Mutation of initialize_default_data: INSERT without OR IGNORE
initialize_default_data_plain(types) ==
    IF \E d \in default_types, r \in types : r.id = d.id \/ r.name = d.name
    THEN [exc |-> "IntegrityError", rows |-> types]
    ELSE [exc |-> "", rows |-> types \cup default_types]

\* Database._initialize_default_data: INSERT OR IGNORE skips a default type
\* whose id (PRIMARY KEY) or name (UNIQUE) is already in the table
initialize_default_data(types) ==
    [exc |-> "",
     rows |-> types \cup {d \in default_types :
                            ~ \E r \in types : r.id = d.id \/ r.name = d.name}]

\* the next rowid of an INTEGER PRIMARY KEY table
NextId(table) ==
    IF table = {} THEN 1
    ELSE (CHOOSE m \in {r.id : r \in table} : \A r \in table : r.id <= m) + 1

(***************************************************************************)
(* The tools.  Each is an operator from the session state bag st, the      *)
(* customer_id argument and the parameter bag to its outcome: what the     *)
(* caller gets (out), the state bag afterwards (st), the store methods     *)
(* invoked in order (q) and the complaint rows inserted (ins).  bag is     *)
(* FALSE when the tool context carries no params attribute.                *)
(***************************************************************************)
Keys == {"account_id", "limit", "offset", "start_date", "end_date",
         "transaction_type", "complaint_id", "type_id", "title", "description",
         "priority", "customer_id"}

NoParams == [key \in Keys |-> Missing]

StateKeys == {"customer_verified", "customer_id", "account_id"}

\* Mutation of Outcome: the call leaves the session marked as verified
Outcome_MarksVerified(out, st, q) ==
    [out |-> out, st |-> [st EXCEPT !["customer_verified"] = BoolV(TRUE)], q |-> q,
     ins |-> {}]

Outcome(out, st, q) == [out |-> out, st |-> st, q |-> q, ins |-> {}]

NotVerified == "Customer not verified ! Please enter your customer id again"
AccountNotFound == "Account {account_id} not found or doesn't belong to customer {customer_id}"
BadPagination == "Invalid pagination parameters: limit and offset must be integers"

\* the dictionaries the transaction tools build from the rows
transaction_list(rows) ==
    [i \in 1..Len(rows) |->
        [transaction_id |-> rows[i].id, amount |-> rows[i].amount, type |-> rows[i].type,
         description |-> rows[i].description, date |-> rows[i].transaction_date,
         created_at |-> rows[i].created_at]]

\* the dictionaries get_customer_complaint builds from the rows
complaint_list(rows) ==
    [i \in 1..Len(rows) |->
        [complaint_id |-> rows[i].id, title |-> rows[i].title,
         type |-> rows[i].complaint_type_name, status |-> rows[i].status,
         priority |-> rows[i].priority, created_at |-> rows[i].created_at,
         updated_at |-> rows[i].updated_at, resolved_at |-> rows[i].resolved_at]]

\* Mutation of IsVerified: only an explicit False counts as unverified
IsVerified_UnsetPasses(st) == Get(st, "customer_verified") # BoolV(FALSE)

\* the gate of the balance and transaction tools:
\* is_verified = tool_context.state.get("customer_verified"); if not is_verified
IsVerified(st) == Truthy(Get(st, "customer_verified"))

\* Mutation of MarkUnverified: the flag is left as it was
MarkUnverified_Skipped(st) == st

\* tool_context.state["customer_verified"] = False
MarkUnverified(st) == [st EXCEPT !["customer_verified"] = BoolV(FALSE)]

\* Mutation of MarkVerified: the customer id is not stored
MarkVerified_NoId(st, customer_id) == [st EXCEPT !["customer_verified"] = BoolV(TRUE)]

\* tool_context.state["customer_verified"] = True; state["customer_id"] = customer_id
MarkVerified(st, customer_id) ==
    [st EXCEPT !["customer_verified"] = BoolV(TRUE), !["customer_id"] = customer_id]

verify_customer(st, customer_id) ==
    LET customer == db_get_customer(customer_id)
        q == <<"get_customer">>
    IN  IF customer = {}
        THEN Outcome(Returned(Shape([Fields EXCEPT
                        !.success = FALSE,
                        !.error = Error("No customer found with ID: {customer_id}",
                                        Fmt(customer_id), NoneV),
                        !.status = "not_found"], "Error verifying customer: ")),
                     MarkUnverified(st), q)
        ELSE LET c == CHOOSE r \in customer : TRUE
             IN  Outcome(Returned(Shape([Fields EXCEPT
                        !.success = TRUE,
                        !.message = "Customer verified successfully",
                        !.status = "verified",
                        !.customer = <<[id |-> c.id, name |-> c.name,
                                        email |-> c.email, phone |-> c.phone]>>],
                        "Error verifying customer: ")),
                     MarkVerified(st, customer_id), q)

get_customer_account(st, customer_id) ==
    LET handler == "Error retrieving accounts: "
        account_id == Get(st, "account_id")
        account == db_get_customer_account(customer_id, account_id)
        accounts_ == db_get_customer_accounts(customer_id)
    IN  IF st["customer_verified"] = Missing
        THEN Outcome(Returned(Failure(ErrorExc(handler, "KeyError: customer_verified"))),
                     st, <<>>)
        ELSE IF ~Truthy(st["customer_verified"])
        THEN Outcome(Returned(Failure(Error("Customer not found with ID: {customer_id}",
                                            Fmt(customer_id), NoneV))), st, <<>>)
        ELSE IF Truthy(account_id)
        THEN IF account = {}
             THEN Outcome(Returned(Failure(Error(AccountNotFound, Fmt(account_id),
                                                 Fmt(customer_id)))),
                          st, <<"get_customer_account">>)
             ELSE LET a == CHOOSE r \in account : TRUE
                  IN  IF "status" \notin DOMAIN a
                      THEN Outcome(Returned(Failure(ErrorExc(handler, "KeyError: status"))),
                                   st, <<"get_customer_account">>)
                      ELSE Outcome(Returned(Shape([Fields EXCEPT
                                       !.success = TRUE,
                                       !.message = "Account retrieved successfully",
                                       !.account_id = IntV(a.id),
                                       !.account = <<a>>], handler)),
                                   st, <<"get_customer_account">>)
        ELSE IF \E i \in 1..Len(accounts_) : "status" \notin DOMAIN accounts_[i]
             THEN Outcome(Returned(Failure(ErrorExc(handler, "KeyError: status"))),
                          st, <<"get_customer_accounts">>)
             ELSE Outcome(Returned(Shape([Fields EXCEPT
                              !.success = TRUE,
                              !.message = "Retrieved {n} accounts for customer {customer_id}",
                              !.accounts = accounts_], handler)),
                          st, <<"get_customer_accounts">>)

get_customer_account_balance(st, customer_id, bag, params) ==
    LET handler == "Error retrieving account balance: "
        account_id == Get(params, "account_id")
        account == db_get_customer_account(customer_id, account_id)
        balance == db_get_account_balance(account_id)
    IN  IF ~bag
        \* the except clause formats account_id, which was never bound
        THEN Outcome(Propagated("UnboundLocalError"), st, <<>>)
        ELSE IF ~IsVerified(st)
        THEN Outcome(Returned(Failure(Error(NotVerified, NoneV, NoneV))), st, <<>>)
        ELSE IF account = {}
        THEN Outcome(Returned(Failure(Error(AccountNotFound, Fmt(account_id),
                                            Fmt(customer_id)))),
                     st, <<"get_customer_account">>)
        ELSE LET a == CHOOSE r \in account : TRUE
                 q == <<"get_customer_account", "get_account_balance">>
             IN  IF "status" \notin DOMAIN a
                 THEN Outcome(Returned(Failure(ErrorExc(handler, "KeyError: status"))), st, q)
                 ELSE Outcome(Returned(Shape([Fields EXCEPT
                                  !.success = TRUE,
                                  !.message = "Account balance retrieved successfully",
                                  !.account_id = account_id,
                                  !.account = <<a>>,
                                  !.balance = <<CHOOSE b \in balance : TRUE>>,
                                  !.currency = "USD",
                                  !.as_of = <<clock>>], handler)),
                              st, q)

\* the "try: int(limit); int(offset) except ValueError" block: the two
\* integers, or the exception int() raised (limit is converted first)
Pagination(params) ==
    LET limit == PyInt(GetDefault(params, "limit", IntV(10)))
        offset == PyInt(GetDefault(params, "offset", IntV(0)))
    IN  IF limit.exc # "" THEN [exc |-> limit.exc, limit |-> 0, offset |-> 0]
        ELSE IF offset.exc # "" THEN [exc |-> offset.exc, limit |-> 0, offset |-> 0]
        ELSE [exc |-> "", limit |-> limit.n, offset |-> offset.n]

get_customer_account_transactions(st, customer_id, bag, params) ==
    LET handler == "Error retrieving transactions: "
        account_id == Get(params, "account_id")
        account == db_get_customer_account(customer_id, account_id)
        page == Pagination(params)
        rows == db_get_account_transactions(account_id, page.limit, page.offset)
    IN  IF ~bag
        \* the except clause formats account_id, which was never bound
        THEN Outcome(Propagated("UnboundLocalError"), st, <<>>)
        ELSE IF ~IsVerified(st)
        THEN Outcome(Returned(Failure(Error(NotVerified, NoneV, NoneV))), st, <<>>)
        ELSE IF account = {}
        THEN Outcome(Returned(Failure(Error(AccountNotFound, Fmt(account_id),
                                            Fmt(customer_id)))),
                     st, <<"get_customer_account">>)
        ELSE IF page.exc = "ValueError"
        THEN Outcome(Returned(Failure(Error(BadPagination, NoneV, NoneV))),
                     st, <<"get_customer_account">>)
        ELSE IF page.exc # ""
        THEN Outcome(Returned(Failure(ErrorExc(handler, page.exc))),
                     st, <<"get_customer_account">>)
        ELSE Outcome(Returned(Shape([Fields EXCEPT
                         !.success = TRUE,
                         !.message = "Retrieved {n} transactions for account {account_id}",
                         !.account_id = account_id,
                         !.transactions = transaction_list(rows),
                         !.pagination = <<[limit |-> page.limit, offset |-> page.offset,
                                           total |-> Len(rows)]>>], handler)),
                     st, <<"get_customer_account", "get_account_transactions">>)

\* datetime.fromisoformat(v): "" when it parses, else the exception
fromisoformat(v) ==
    CASE v.k = "date" -> ""
      [] v.k \in {"str", "numstr"} -> "ValueError"
      [] OTHER -> "TypeError"

get_customer_account_transactions_by_date(st, customer_id, bag, params) ==
    LET handler == "Error retrieving transactions by date: "
        account_id == Get(params, "account_id")
        start_date == Get(params, "start_date")
        end_date == GetDefault(params, "end_date", DateV(Today))
        parsed == IF fromisoformat(start_date) # "" THEN fromisoformat(start_date)
                  ELSE fromisoformat(end_date)
        account == db_get_customer_account(customer_id, account_id)
        rows == db_get_transactions_by_date_range(account_id, start_date, end_date)
    IN  IF ~bag
        THEN Outcome(Returned(Failure(ErrorExc(handler, "AttributeError"))), st, <<>>)
        ELSE IF ~(Truthy(account_id) /\ Truthy(start_date))
        THEN Outcome(Returned(Failure(Error(
                         "account_id and start_date parameters are required",
                         NoneV, NoneV))), st, <<>>)
        ELSE IF parsed = "ValueError"
        THEN Outcome(Returned(Failure(Error(
                         "Invalid date format. Dates must be in YYYY-MM-DD format.",
                         NoneV, NoneV))), st, <<>>)
        ELSE IF parsed # ""
        THEN Outcome(Returned(Failure(ErrorExc(handler, parsed))), st, <<>>)
        ELSE IF account = {}
        THEN Outcome(Returned(Failure(Error(AccountNotFound, Fmt(account_id),
                                            Fmt(customer_id)))),
                     st, <<"get_customer_account">>)
        ELSE Outcome(Returned(Shape([Fields EXCEPT
                         !.success = TRUE,
                         !.message = "Retrieved {n} transactions between {start_date} and {end_date}",
                         !.account_id = account_id,
                         !.transactions = transaction_list(rows),
                         !.start_date = start_date,
                         !.end_date = end_date], handler)),
                     st, <<"get_customer_account", "get_transactions_by_date_range">>)

get_customer_account_transactions_by_type(st, customer_id, bag, params) ==
    LET handler == "Error retrieving transactions by type: "
        account_id == Get(params, "account_id")
        transaction_type == Get(params, "transaction_type")
        account == db_get_customer_account(customer_id, account_id)
        rows == db_get_transactions_by_type(account_id, transaction_type)
    IN  IF ~bag
        THEN Outcome(Returned(Failure(ErrorExc(handler, "AttributeError"))), st, <<>>)
        ELSE IF ~(Truthy(account_id) /\ Truthy(transaction_type))
        THEN Outcome(Returned(Failure(Error(
                         "account_id and transaction_type parameters are required",
                         NoneV, NoneV))), st, <<>>)
        ELSE IF account = {}
        THEN Outcome(Returned(Failure(Error(AccountNotFound, Fmt(account_id),
                                            Fmt(customer_id)))),
                     st, <<"get_customer_account">>)
        ELSE Outcome(Returned(Shape([Fields EXCEPT
                         !.success = TRUE,
                         !.message = "Retrieved {n} {transaction_type} transactions",
                         !.account_id = account_id,
                         !.transactions = transaction_list(rows),
                         !.transaction_type = transaction_type], handler)),
                     st, <<"get_customer_account", "get_transactions_by_type">>)

get_customer_complaint(st, customer_id, bag, params) ==
    LET handler == "Error retrieving complaints: "
        page == Pagination(params)
        rows == db_get_customer_complaints(customer_id, page.limit, page.offset)
    IN  IF ~db_verify_customer(customer_id)
        THEN Outcome(Returned(Failure(Error("Customer not found with ID: {customer_id}",
                                            Fmt(customer_id), NoneV))),
                     st, <<"verify_customer">>)
        ELSE IF ~bag
        THEN Outcome(Returned(Failure(ErrorExc(handler, "AttributeError"))),
                     st, <<"verify_customer">>)
        ELSE IF page.exc = "ValueError"
        THEN Outcome(Returned(Failure(Error(BadPagination, NoneV, NoneV))),
                     st, <<"verify_customer">>)
        ELSE IF page.exc # ""
        THEN Outcome(Returned(Failure(ErrorExc(handler, page.exc))),
                     st, <<"verify_customer">>)
        ELSE Outcome(Returned(Shape([Fields EXCEPT
                         !.success = TRUE,
                         !.message = "Retrieved {n} complaints for customer {customer_id}",
                         !.customer_id = customer_id,
                         !.complaints = complaint_list(rows),
                         !.pagination = <<[limit |-> page.limit, offset |-> page.offset,
                                           total |-> Len(rows)]>>], handler)),
                     st, <<"verify_customer", "get_customer_complaints">>)

get_customer_complaint_by_id(st, customer_id, bag, params) ==
    LET handler == "Error retrieving complaint: "
        complaint_id == Get(params, "complaint_id")
        complaint == db_get_complaint_by_id(complaint_id, customer_id)
    IN  IF ~bag
        \* the except clause formats complaint_id, which was never bound
        THEN Outcome(Propagated("UnboundLocalError"), st, <<>>)
        ELSE IF ~Truthy(complaint_id)
        THEN Outcome(Returned(Failure(Error("complaint_id parameter is required",
                                            NoneV, NoneV))), st, <<>>)
        ELSE IF complaint = {}
        THEN Outcome(Returned(Failure(Error(
                         "Complaint {complaint_id} not found or doesn't belong to customer {customer_id}",
                         Fmt(complaint_id), Fmt(customer_id)))),
                     st, <<"get_complaint_by_id">>)
        ELSE LET c == CHOOSE r \in complaint : TRUE
             IN  Outcome(Returned(Shape([Fields EXCEPT
                             !.success = TRUE,
                             !.message = "Complaint retrieved successfully",
                             !.customer_id = customer_id,
                             !.complaint_id = IntV(c.id),
                             !.complaint = <<c>>], handler)),
                         st, <<"get_complaint_by_id">>)

required_fields == <<"type_id", "title", "description">>

\* Mutation of missing_fields: the first absent field only
missing_fields_first(params) ==
    LET absent == SelectSeq(required_fields, LAMBDA f : params[f] = Missing)
    IN  IF absent = <<>> THEN <<>> ELSE <<absent[1]>>

\* [field for field in required_fields if field not in tool_context.params]
missing_fields(params) == SelectSeq(required_fields, LAMBDA f : params[f] = Missing)

create_customer_complaint(st, customer_id, bag, params) ==
    LET handler == "Error creating complaint: "
        created == db_create_complaint(customer_id, params["type_id"], params["title"],
                                       params["description"],
                                       GetDefault(params, "priority", StrV("Medium")))
    IN  IF ~db_verify_customer(customer_id)
        THEN Outcome(Returned(Failure(Error("Customer not found with ID: {customer_id}",
                                            Fmt(customer_id), NoneV))),
                     st, <<"verify_customer">>)
        ELSE IF ~bag
        THEN Outcome(Returned(Failure(ErrorExc(handler, "AttributeError"))),
                     st, <<"verify_customer">>)
        ELSE IF missing_fields(params) # <<>>
        THEN Outcome(Returned(Failure(ErrorNames("Missing required fields: ",
                                                 missing_fields(params)))),
                     st, <<"verify_customer">>)
        ELSE IF created.exc # ""
        THEN Outcome(Returned(Failure(ErrorExc("Database error creating complaint: ",
                                               created.exc))),
                     st, <<"verify_customer", "create_complaint">>)
        ELSE LET c == CHOOSE r \in created.rows : TRUE
                 \* db.get_complaint_by_id(complaint_id) reads the row just written
             IN  [out |-> Returned(Shape([Fields EXCEPT
                             !.success = TRUE,
                             !.message = "Complaint created successfully",
                             !.customer_id = customer_id,
                             !.complaint_id = IntV(c.id),
                             !.complaint = <<c>>],
                             "Database error creating complaint: ")),
                  st |-> st,
                  q |-> <<"verify_customer", "create_complaint", "get_complaint_by_id">>,
                  ins |-> created.rows]

\* str.split() of the customer names in the store
split(name) ==
    CASE name = "John Doe" -> <<"John", "Doe">>
      [] name = "Jane Smith" -> <<"Jane", "Smith">>

\* an offer; its title is a fixed text and the name interpolated into it
Offer(id, text, name, description) ==
    [id |-> id, title |-> <<text, name>>, description |-> description]

base_offers ==
    << Offer(1, "Premium Credit Card", "", "0% APR for 12 months"),
       Offer(2, "Personal Loan", "", "Low interest rates starting at 5.99%"),
       Offer(3, "High-Yield Savings", "", "Earn 2.5% APY on your savings") >>

\* Database.get_current_offers: "if customer_id:" and "if customer:" guard
\* the one appended offer; base_offers is built anew on each call
db_get_current_offers(customer_id) ==
    LET customer == db_get_customer(customer_id)
    IN  IF Truthy(customer_id) /\ customer # {}
        THEN Append(base_offers,
                    Offer(100, "Special Offer for {first_name}",
                          split((CHOOSE r \in customer : TRUE).name)[1],
                          "Exclusive deal just for you!"))
        ELSE base_offers

\* the tool get_current_offers(tool_context): customer_id comes from the bag
get_current_offers(st, bag, params) ==
    LET handler == "Error retrieving offers: "
        customer_id == Get(params, "customer_id")
        offers == db_get_current_offers(customer_id)
        is_personalized == customer_id # NoneV
    IN  IF ~bag
        THEN Outcome(Returned(Failure(ErrorExc(handler, "AttributeError"))), st, <<>>)
        ELSE IF Truthy(customer_id) /\ ~db_verify_customer(customer_id)
        THEN Outcome(Returned(Failure(Error("Customer not found with ID: {customer_id}",
                                            Fmt(customer_id), NoneV))),
                     st, <<"verify_customer">>)
        ELSE Outcome(Returned(Shape([Fields EXCEPT
                         !.success = TRUE,
                         !.message = IF is_personalized
                                     THEN "Retrieved {n} personalized offers"
                                     ELSE "Retrieved {n} general offers",
                         !.offers = offers,
                         !.personalized = <<is_personalized>>,
                         !.customer_id = IF is_personalized THEN customer_id ELSE NoneV],
                         handler)),
                     st,
                     IF Truthy(customer_id)
                     THEN <<"verify_customer", "get_current_offers">>
                     ELSE <<"get_current_offers">>)

\* the tool named op, applied
ToolOutcome(op, st, customer_id, bag, params) ==
    CASE op = "verify_customer" -> verify_customer(st, customer_id)
      [] op = "get_customer_account" -> get_customer_account(st, customer_id)
      [] op = "get_customer_account_balance" ->
            get_customer_account_balance(st, customer_id, bag, params)
      [] op = "get_customer_account_transactions" ->
            get_customer_account_transactions(st, customer_id, bag, params)
      [] op = "get_customer_account_transactions_by_date" ->
            get_customer_account_transactions_by_date(st, customer_id, bag, params)
      [] op = "get_customer_account_transactions_by_type" ->
            get_customer_account_transactions_by_type(st, customer_id, bag, params)
      [] op = "get_customer_complaint" ->
            get_customer_complaint(st, customer_id, bag, params)
      [] op = "get_customer_complaint_by_id" ->
            get_customer_complaint_by_id(st, customer_id, bag, params)
      [] op = "create_customer_complaint" ->
            create_customer_complaint(st, customer_id, bag, params)

(***************************************************************************)
(* The state machine: a caller invokes one tool, or one method of the      *)
(* store, at a time (section 5: synchronous, one call at a time).          *)
(***************************************************************************)
\* what a method of the store returned: a row or value (one), a list (many),
\* or the exception it raised
NoRet == [one |-> {}, many |-> <<>>, exc |-> ""]

NoCall == [op |-> "", session |-> "", customer_id |-> NoneV, bag |-> TRUE,
           params |-> NoParams]

Call(op, s, customer_id, bag, params) ==
    [op |-> op, session |-> s, customer_id |-> customer_id, bag |-> bag, params |-> params]

\* the values callers pass
Ids == {IntV(i) : i \in 0..MaxId} \cup {NumStrV(1)}
\* an existing customer (as a number and as a string) and an unknown one
CoreIds == {IntV(1), NumStrV(1), IntV(MaxId)}
\* no account, an own one, one of another customer
CoreAccounts == {Missing, NumStrV(1), IntV(2)}
Limits == {IntV(i) : i \in -1..MaxLimit} \cup {Missing, NoneV, StrV("abc"), NumStrV(2), FloatV(2)}
Offsets == {IntV(i) : i \in -1..1} \cup {Missing, NoneV, StrV("abc"), NumStrV(1)}
FewLimits == {Missing, StrV("abc")}
Dates == {Missing, DateV(5), StrV("abc")}
Types == {Missing, StrV("Deposit")}

\* ---- customer_service_agent: the shopping cart ----

\* the largest quantity of one item the model follows
MaxQuantity == 3

Product(product_id, name, price, stock_quantity) ==
    [product_id |-> product_id, name |-> name, price |-> price,
     stock_quantity |-> stock_quantity]

\* prices are kept as their decimal text
PRODUCT_CATALOG ==
    << Product("prd001", "Garden Shovel", "25.99", 15),
       Product("prd002", "Tomato Seeds Pack", "4.99", 50),
       Product("prd003", "Plant Fertilizer", "12.50", 25) >>

CartItem(product_id, name, quantity, price) ==
    [product_id |-> product_id, name |-> name, quantity |-> quantity, price |-> price]

\* CUSTOMER_CART as the module defines it: a dict with one key
InitialCart ==
    [c \in {"customer-001"} |-> <<CartItem("prd002", "Tomato Seeds Pack", 2, "4.99")>>]

\* CUSTOMER_CART.get(customer_id, [])
cart_get(carts, customer_id) ==
    IF customer_id \in DOMAIN carts THEN carts[customer_id] ELSE <<>>

\* the position of key pid in an insertion-ordered dict of items, 0 if absent
IndexOf(cart_dict, pid) ==
    IF \E i \in 1..Len(cart_dict) : cart_dict[i].product_id = pid
    THEN CHOOSE i \in 1..Len(cart_dict) : cart_dict[i].product_id = pid
    ELSE 0

\* cart_dict[item.product_id] = item: a present key keeps its place
dict_set(cart_dict, item) ==
    LET i == IndexOf(cart_dict, item.product_id)
    IN  IF i = 0 THEN Append(cart_dict, item) ELSE [cart_dict EXCEPT ![i] = item]

\* {item.product_id: item for item in cart}
RECURSIVE dict_of(_, _)
dict_of(cart, cart_dict) ==
    IF cart = <<>> THEN cart_dict
    ELSE dict_of(Tail(cart), dict_set(cart_dict, Head(cart)))

\* "if pid in cart_dict: del cart_dict[pid]", for each pid of remove
RECURSIVE process_removals(_, _)
process_removals(cart_dict, remove) ==
    IF remove = <<>> THEN cart_dict
    ELSE process_removals(SelectSeq(cart_dict, LAMBDA item : item.product_id # Head(remove)),
                          Tail(remove))

\* next((p for p in PRODUCT_CATALOG if p.product_id == pid), None), as a set
product_in_catalog(pid) ==
    {PRODUCT_CATALOG[i] : i \in {j \in 1..Len(PRODUCT_CATALOG) :
        /\ PRODUCT_CATALOG[j].product_id = pid
        /\ \A k \in 1..(j - 1) : PRODUCT_CATALOG[k].product_id # pid}}

\* Mutation of add_one: the catalog is not consulted
add_one_unchecked(cart_dict, pid) ==
    LET i == IndexOf(cart_dict, pid)
    IN  IF i # 0
        THEN [cart_dict EXCEPT ![i].quantity = @ + 1]
        ELSE Append(cart_dict, CartItem(pid, "", 1, ""))

\* one pid of add: ignored when not in the catalog, quantity += 1 when in the
\* cart, a new CartItem of quantity 1 otherwise
add_one(cart_dict, pid) ==
    LET found == product_in_catalog(pid)
        i == IndexOf(cart_dict, pid)
    IN  IF found = {} THEN cart_dict
        ELSE IF i # 0
        THEN [cart_dict EXCEPT ![i].quantity = @ + 1]
        ELSE LET p == CHOOSE x \in found : TRUE
             IN  Append(cart_dict, CartItem(pid, p.name, 1, p.price))

RECURSIVE process_additions(_, _)
process_additions(cart_dict, add) ==
    IF add = <<>> THEN cart_dict
    ELSE process_additions(add_one(cart_dict, Head(add)), Tail(add))

\* Mutation of cart_store: the list is stored under every key
cart_store_all(carts, customer_id, updated_cart_list) ==
    [c \in DOMAIN carts \cup {customer_id} |-> updated_cart_list]

\* CUSTOMER_CART[customer_id] = updated_cart_list
cart_store(carts, customer_id, updated_cart_list) ==
    [c \in DOMAIN carts \cup {customer_id} |->
        IF c = customer_id THEN updated_cart_list ELSE carts[c]]

\* modify_cart: the cart returned and CUSTOMER_CART afterwards
modify_cart(carts, customer_id, add, remove) ==
    LET cart == cart_get(carts, customer_id)
        cart_dict == dict_of(cart, <<>>)
        updated_cart_list == process_additions(process_removals(cart_dict, remove), add)
    IN  [cart |-> updated_cart_list,
         carts |-> cart_store(carts, customer_id, updated_cart_list)]

\* get_cart_contents: Cart(items=CUSTOMER_CART.get(customer_id, []))
get_cart_contents(carts, customer_id) == cart_get(carts, customer_id)

\* ---- customer_service_agent: the rate limiter ----

RATE_LIMIT_SECS == 60
RPM_QUOTA == 10

\* the latest second the model follows
MaxNow == 125

\* callback_context.state before the first request: no "timer_start" key
NoTimer == [started |-> FALSE, timer_start |-> 0, request_count |-> 0]

\* rate_limit_callback at time t: the session state it leaves and the time
\* at which it returns (later than t when it sleeps)
rate_limit_callback(st, t) ==
    LET request_count == st.request_count + 1
        elapsed_secs == t - st.timer_start
        delay == RATE_LIMIT_SECS - elapsed_secs + 1
        woke == IF delay > 0 THEN t + delay ELSE t
    IN  IF ~st.started
        THEN [state |-> [started |-> TRUE, timer_start |-> t, request_count |-> 1],
              now |-> t]
        ELSE IF request_count > RPM_QUOTA
        THEN [state |-> [started |-> TRUE, timer_start |-> woke, request_count |-> 1],
              now |-> woke]
        ELSE [state |-> [st EXCEPT !.request_count = request_count], now |-> t]

\* the return times that lie in the RATE_LIMIT_SECS seconds ending at t
Recent(times, t) == SelectSeq(times, LAMBDA r : t - r < RATE_LIMIT_SECS)

\* a request arrives at the present time; the callback returns, after sleeping if it sleeps
RateLimitCallback ==
    \E r \in {rate_limit_callback(callback_state, time)} :
        /\ r.now <= MaxNow
        /\ Len(returns) <= RPM_QUOTA
        /\ callback_state' = r.state
        /\ time' = r.now
        /\ returns' = Recent(Append(returns, r.now), r.now)
        /\ UNCHANGED <<bank, shop>>

\* the gaps between requests the model follows
Gaps == {30, RATE_LIMIT_SECS - 1}

\* time passes with no request
Elapse ==
    \E d \in Gaps :
        /\ time + d <= MaxNow
        /\ time' = time + d
        /\ returns' = Recent(returns, time + d)
        /\ UNCHANGED <<callback_state, bank, shop>>

NoCartCall == [op |-> "", customer_id |-> "", add |-> <<>>, remove |-> <<>>]

CartCustomers == {"customer-001", "customer-002", "customer-003"}

\* add and remove lists: empty, repeated ids, ids outside the catalog
Adds == {<<>>, <<"prd001">>, <<"prd002", "prd002">>, <<"prd001", "prd404">>}
Removes == {<<>>, <<"prd002">>, <<"prd001", "prd404">>}

ModifyCart ==
    \E customer_id \in CartCustomers \ {"customer-003"}, add \in Adds, remove \in Removes :
        \E r \in {modify_cart(CUSTOMER_CART, customer_id, add, remove)} :
            /\ \A i \in 1..Len(r.cart) : r.cart[i].quantity <= MaxQuantity
            /\ CUSTOMER_CART' = r.carts
            /\ cart_call' = [op |-> "modify_cart", customer_id |-> customer_id,
                             add |-> add, remove |-> remove]
            /\ cart_ret' = r.cart
            /\ UNCHANGED <<bank, limiter>>

GetCartContents ==
    \E customer_id \in CartCustomers :
        /\ cart_call' = [op |-> "get_cart_contents", customer_id |-> customer_id,
                         add |-> <<>>, remove |-> <<>>]
        /\ cart_ret' = get_cart_contents(CUSTOMER_CART, customer_id)
        /\ UNCHANGED <<CUSTOMER_CART, bank, limiter>>

Init ==
    /\ customers = SeedCustomers
    /\ accounts = SeedAccounts
    /\ transactions = SeedTransactions
    /\ complaint_types = default_types
    /\ complaints = SeedComplaints
    /\ state = [s \in Sessions |-> [key \in StateKeys |-> Missing]]
    /\ call = NoCall
    /\ resp = Returned(Fields)
    /\ queries = <<>>
    /\ ret = NoRet
    /\ clock = Start
    /\ connections = 0
    /\ CUSTOMER_CART = InitialCart
    /\ cart_call = NoCartCall
    /\ cart_ret = <<>>
    /\ callback_state = NoTimer
    /\ time = 0
    /\ returns = <<>>

\* Database._get_connection: sqlite3.connect hands out one more connection
get_connection(open) == open + 1

\* leaving "with self._get_connection() as conn:", by return or by raise:
\* sqlite3.Connection.__exit__ commits or rolls back and closes nothing; no
\* store method calls conn.close()
exit(open) == open

\* the connections one store method leaves behind; get_current_offers reaches
\* the store through get_customer only, and only for a truthy customer id
with_connection(method, customer_id) ==
    IF method \in {"get_current_offers", "db.get_current_offers"} /\ ~Truthy(customer_id)
    THEN 0
    ELSE exit(get_connection(0))

\* the connections left behind by the store methods a call went through
RECURSIVE StillOpen(_, _)
StillOpen(q, customer_id) ==
    IF q = <<>> THEN 0
    ELSE with_connection(Head(q), customer_id) + StillOpen(Tail(q), customer_id)

\* a tool call returns: its outcome o becomes visible
Return(c, outcome) ==
    \E o \in {outcome} :
    /\ call' = c
    /\ resp' = o.out
    /\ queries' = o.q
    /\ state' = [state EXCEPT ![c.session] = o.st]
    /\ complaints' = complaints \cup o.ins
    /\ ret' = NoRet
    /\ connections' = StillOpen(o.q, IF c.op = "get_current_offers"
                                     THEN c.params["customer_id"] ELSE c.customer_id)
    /\ UNCHANGED <<shop, limiter>>
    /\ UNCHANGED <<customers, accounts, transactions, complaint_types, clock>>

\* a method of the store returns
DbReturn(c, one, many) ==
    /\ call' = c
    /\ ret' = [one |-> one, many |-> many, exc |-> ""]
    /\ resp' = Returned(Fields)
    /\ queries' = <<>>
    /\ connections' = with_connection(c.op, c.customer_id)
    /\ UNCHANGED <<state, tables, clock, shop, limiter>>

VerifyCustomer(S, cids) ==
    \E s \in S, customer_id \in cids :
        Return(Call("verify_customer", s, customer_id, TRUE, NoParams),
               verify_customer(state[s], customer_id))

\* the tool reads account_id from the session state, whatever the bag holds
GetCustomerAccount(S, cids, aids) ==
    \E s \in S, customer_id \in cids, account_id \in aids :
        Return(Call("get_customer_account", s, customer_id, TRUE,
                    [NoParams EXCEPT !["account_id"] = account_id]),
               get_customer_account(state[s], customer_id))

\* a tool context without a params attribute carries no parameters
Bags(params) == {<<TRUE, params>>, <<FALSE, NoParams>>}

GetCustomerAccountBalance(S, cids, aids) ==
    \E s \in S, customer_id \in cids, account_id \in aids :
        \E b \in Bags([NoParams EXCEPT !["account_id"] = account_id]) :
            Return(Call("get_customer_account_balance", s, customer_id, b[1], b[2]),
                   get_customer_account_balance(state[s], customer_id, b[1], b[2]))

GetCustomerAccountTransactions(S, cids, aids, limits, offsets) ==
    \E s \in S, customer_id \in cids, account_id \in aids,
       limit \in limits, offset \in offsets :
        \E b \in Bags([NoParams EXCEPT !["account_id"] = account_id,
                                       !["limit"] = limit, !["offset"] = offset]) :
            Return(Call("get_customer_account_transactions", s, customer_id, b[1], b[2]),
                   get_customer_account_transactions(state[s], customer_id, b[1], b[2]))

GetCustomerAccountTransactionsByDate(S, cids, aids, dates) ==
    \E s \in S, customer_id \in cids, account_id \in aids, start_date \in dates :
        \E b \in Bags([NoParams EXCEPT !["account_id"] = account_id,
                                       !["start_date"] = start_date]) :
            Return(Call("get_customer_account_transactions_by_date", s, customer_id,
                        b[1], b[2]),
                   get_customer_account_transactions_by_date(state[s], customer_id,
                                                             b[1], b[2]))

GetCustomerAccountTransactionsByType(S, cids, aids, types) ==
    \E s \in S, customer_id \in cids, account_id \in aids, transaction_type \in types :
        \E b \in Bags([NoParams EXCEPT !["account_id"] = account_id,
                                       !["transaction_type"] = transaction_type]) :
            Return(Call("get_customer_account_transactions_by_type", s, customer_id,
                        b[1], b[2]),
                   get_customer_account_transactions_by_type(state[s], customer_id,
                                                             b[1], b[2]))

GetCustomerComplaint(S, cids, limits, offsets) ==
    \E s \in S, customer_id \in cids, limit \in limits, offset \in offsets :
        \E b \in Bags([NoParams EXCEPT !["limit"] = limit, !["offset"] = offset]) :
            Return(Call("get_customer_complaint", s, customer_id, b[1], b[2]),
                   get_customer_complaint(state[s], customer_id, b[1], b[2]))

GetCustomerComplaintById(S, cids, kids) ==
    \E s \in S, customer_id \in cids, complaint_id \in kids :
        \E b \in Bags([NoParams EXCEPT !["complaint_id"] = complaint_id]) :
            Return(Call("get_customer_complaint_by_id", s, customer_id, b[1], b[2]),
                   get_customer_complaint_by_id(state[s], customer_id, b[1], b[2]))

CreateCustomerComplaint(S, cids, tids) ==
    /\ Cardinality(complaints) < MaxComplaints
    /\ \E s \in S, customer_id \in cids, type_id \in tids,
          title \in {Missing, StrV("T")}, description \in {Missing, StrV("D")} :
        \E b \in Bags([NoParams EXCEPT !["type_id"] = type_id, !["title"] = title,
                                       !["description"] = description]) :
            Return(Call("create_customer_complaint", s, customer_id, b[1], b[2]),
                   create_customer_complaint(state[s], customer_id, b[1], b[2]))

\* a response model constructed directly from arbitrary fields
BuildResponse ==
    \E success \in BOOLEAN, error \in {NoError, Error("e", NoneV, NoneV)} :
        /\ call' = Call(IF success THEN "ToolResponse(success=True)"
                         ELSE "ToolResponse(success=False)", "", NoneV, TRUE, NoParams)
        /\ resp' = Returned(ToolResponse([Fields EXCEPT !.success = success,
                                                        !.error = error]).env)
        /\ queries' = <<>>
        /\ ret' = NoRet
        /\ connections' = 0
        /\ UNCHANGED <<state, tables, clock, shop, limiter>>

DbGetCustomerAccount ==
    \E customer_id \in Ids, account_id \in Ids :
        DbReturn(Call("db.get_customer_account", "", customer_id, TRUE,
                      [NoParams EXCEPT !["account_id"] = account_id]),
                 db_get_customer_account(customer_id, account_id), <<>>)

\* customer_id = NoneV is the call that omits the optional argument
DbGetComplaintById ==
    \E customer_id \in Ids \cup {NoneV}, complaint_id \in Ids :
        DbReturn(Call("db.get_complaint_by_id", "", customer_id, TRUE,
                      [NoParams EXCEPT !["complaint_id"] = complaint_id]),
                 db_get_complaint_by_id(complaint_id, customer_id), <<>>)

DbGetAccountTransactions ==
    \E account_id \in {IntV(1), IntV(2)}, limit \in -1..MaxLimit, offset \in -1..MaxLimit :
        DbReturn(Call("db.get_account_transactions", "", NoneV, TRUE,
                      [NoParams EXCEPT !["account_id"] = account_id,
                                       !["limit"] = IntV(limit),
                                       !["offset"] = IntV(offset)]),
                 {}, db_get_account_transactions(account_id, limit, offset))

\* a store method returns without having touched the tool layer
DbCall(c) ==
    /\ call' = c
    /\ resp' = Returned(Fields)
    /\ queries' = <<>>
    /\ connections' = with_connection(c.op, c.customer_id)
    /\ UNCHANGED <<state, shop, limiter>>

\* Database.create_complaint; priority = Missing is the call that omits it
DbCreateComplaint(cids, tids, titles, priorities) ==
    /\ Cardinality(complaints) < MaxComplaints
    /\ \E customer_id \in cids, type_id \in tids, title \in titles,
          priority \in priorities :
        \E o \in {db_create_complaint(customer_id, type_id, title, StrV("D"),
                      IF priority = Missing THEN StrV("Medium") ELSE priority)} :
            /\ DbCall(Call("db.create_complaint", "", customer_id, TRUE,
                           [NoParams EXCEPT !["type_id"] = type_id, !["title"] = title,
                                            !["description"] = StrV("D"),
                                            !["priority"] = priority]))
            /\ complaints' = complaints \cup o.rows
            /\ ret' = [one |-> IF o.exc = "" THEN {o.id} ELSE {}, many |-> <<>>,
                       exc |-> o.exc]
            /\ UNCHANGED <<customers, accounts, transactions, complaint_types, clock>>

\* Database._initialize_database on the store as it is: every CREATE is
\* IF NOT EXISTS, so only the default complaint types are (re)inserted
InitializeDatabase ==
    \E o \in {initialize_default_data(complaint_types)} :
        /\ DbCall(Call("db._initialize_database", "", NoneV, TRUE, NoParams))
        /\ complaint_types' = o.rows
        /\ ret' = [one |-> {}, many |-> <<>>, exc |-> o.exc]
        /\ UNCHANGED <<customers, accounts, transactions, complaints, clock>>

\* insert_sample_accounts: one more account of a customer
InsertAccount(cids) ==
    /\ Cardinality(accounts) < MaxAccounts
    /\ \E customer_id \in cids :
        /\ DbCall(Call("insert_sample_accounts", "", IntV(customer_id), TRUE, NoParams))
        /\ accounts' = accounts \cup
              {[id |-> NextId(accounts), customer_id |-> customer_id,
                account_number |-> "ACC", balance |-> 500, account_type |-> "Checking",
                account_status |-> "Active", created_at |-> clock]}
        /\ ret' = NoRet
        /\ UNCHANGED <<customers, transactions, complaint_types, complaints, clock>>

\* insert_sample_transactions: one more transaction of an account
InsertTransaction(aids, days, types) ==
    /\ Cardinality(transactions) < MaxTransactions
    /\ \E account_id \in aids, day \in days, type \in types :
        /\ DbCall(Call("insert_sample_transactions", "", NoneV, TRUE,
                       [NoParams EXCEPT !["account_id"] = IntV(account_id)]))
        /\ transactions' = transactions \cup
              {[id |-> NextId(transactions), account_id |-> account_id, amount |-> 50,
                type |-> type, description |-> "d", transaction_date |-> day,
                created_at |-> clock]}
        /\ ret' = NoRet
        /\ UNCHANGED <<customers, accounts, complaint_types, complaints, clock>>

\* a second passes
Tick ==
    /\ clock < MaxClock
    /\ clock' = clock + 1
    /\ UNCHANGED <<tables, state, call, resp, queries, ret, connections, shop, limiter>>

\* the interpreter's garbage collector finds the connection objects a call
\* left unreachable and finalizes them, at a moment of its own choosing
Collect ==
    /\ connections > 0
    /\ connections' = 0
    /\ UNCHANGED <<tables, state, call, resp, queries, ret, clock, shop, limiter>>

DbGetTransactionsByDateRange(aids, days) ==
    \E account_id \in aids, start_date \in days, end_date \in days :
        DbReturn(Call("db.get_transactions_by_date_range", "", NoneV, TRUE,
                      [NoParams EXCEPT !["account_id"] = IntV(account_id),
                                       !["start_date"] = DateV(start_date),
                                       !["end_date"] = DateV(end_date)]),
                 {}, db_get_transactions_by_date_range(IntV(account_id),
                                                       DateV(start_date), DateV(end_date)))

DbGetTransactionsByType(aids, types) ==
    \E account_id \in aids, transaction_type \in types :
        DbReturn(Call("db.get_transactions_by_type", "", NoneV, TRUE,
                      [NoParams EXCEPT !["account_id"] = IntV(account_id),
                                       !["transaction_type"] = StrV(transaction_type)]),
                 {}, db_get_transactions_by_type(IntV(account_id), StrV(transaction_type)))

\* Database.get_account_transactions with every row in the page
DbGetAllAccountTransactions(aids) ==
    \E account_id \in aids :
        DbReturn(Call("db.get_account_transactions", "", NoneV, TRUE,
                      [NoParams EXCEPT !["account_id"] = IntV(account_id),
                                       !["limit"] = IntV(MaxTransactions + 1),
                                       !["offset"] = IntV(0)]),
                 {}, db_get_account_transactions(IntV(account_id), MaxTransactions + 1, 0))

DbGetCustomerAccounts ==
    \E customer_id \in {IntV(1), IntV(2)} :
        DbReturn(Call("db.get_customer_accounts", "", customer_id, TRUE, NoParams),
                 {}, db_get_customer_accounts(customer_id))

\* Database.get_customer_complaints with every row in the page
DbGetCustomerComplaints ==
    \E customer_id \in {IntV(1), IntV(2)} :
        DbReturn(Call("db.get_customer_complaints", "", customer_id, TRUE,
                      [NoParams EXCEPT !["limit"] = IntV(MaxComplaints + 1),
                                       !["offset"] = IntV(0)]),
                 {}, db_get_customer_complaints(customer_id, MaxComplaints + 1, 0))

GetCurrentOffers(S, cids) ==
    \E s \in S, customer_id \in cids :
        \E b \in Bags([NoParams EXCEPT !["customer_id"] = customer_id]) :
            Return(Call("get_current_offers", s, NoneV, b[1], b[2]),
                   get_current_offers(state[s], b[1], b[2]))

\* Database.get_current_offers; customer_id = NoneV is the call that omits it
DbGetCurrentOffers(cids) ==
    \E customer_id \in cids :
        DbReturn(Call("db.get_current_offers", "", customer_id, TRUE, NoParams),
                 {}, db_get_current_offers(customer_id))

\* one caller, one session
One == {"s1"}

\* every tool, on the core ids
Next ==
    \/ VerifyCustomer(One, CoreIds)
    \/ GetCustomerAccount(One, CoreIds, {Missing, NumStrV(1)})
    \/ GetCustomerAccountBalance(One, CoreIds, CoreAccounts)
    \/ GetCustomerAccountTransactions(One, CoreIds, CoreAccounts, FewLimits, {Missing})
    \/ GetCustomerAccountTransactionsByDate(One, CoreIds, CoreAccounts, Dates)
    \/ GetCustomerAccountTransactionsByType(One, CoreIds, CoreAccounts, Types)
    \/ GetCustomerComplaint(One, CoreIds, FewLimits, {Missing})
    \/ GetCustomerComplaintById(One, CoreIds, {Missing, IntV(1), IntV(2)})
    \/ CreateCustomerComplaint(One, CoreIds, {Missing, IntV(1), IntV(9)})
    \/ BuildResponse

Spec == Init /\ [][Next]_vars

\* the account tools and the account query, on every id
NextAccounts ==
    \/ VerifyCustomer(One, Ids)
    \/ GetCustomerAccount(One, Ids, {Missing, IntV(1), IntV(2)})
    \/ GetCustomerAccountBalance(One, Ids, Ids \cup {Missing})
    \/ GetCustomerAccountTransactions(One, Ids, Ids \cup {Missing}, {Missing}, {Missing})
    \/ GetCustomerAccountTransactionsByDate(One, Ids, Ids \cup {Missing}, {Missing, DateV(5)})
    \/ GetCustomerAccountTransactionsByType(One, Ids, Ids \cup {Missing}, Types)
    \/ DbGetCustomerAccount

SpecAccounts == Init /\ [][NextAccounts]_vars

\* the complaint tools and the complaint query, on every id
NextComplaints ==
    \/ VerifyCustomer(One, Ids)
    \/ GetCustomerComplaint(One, Ids, FewLimits, {Missing})
    \/ GetCustomerComplaintById(One, Ids, Ids \cup {Missing})
    \/ CreateCustomerComplaint(One, Ids, {Missing, IntV(1), IntV(9)})
    \/ DbGetComplaintById

SpecComplaints == Init /\ [][NextComplaints]_vars

\* the pagination parameters in full
NextPaging ==
    \/ VerifyCustomer(One, {NumStrV(1)})
    \/ GetCustomerAccountTransactions(One, {NumStrV(1)}, {NumStrV(1)}, Limits, Offsets)
    \/ GetCustomerComplaint(One, {NumStrV(1)}, Limits, Offsets)
    \/ DbGetAccountTransactions

SpecPaging == Init /\ [][NextPaging]_vars

\* the store on its own: complaint creation and re-initialization
NextStore ==
    \/ DbCreateComplaint({IntV(0), IntV(1), IntV(2), IntV(MaxId)},
                         {IntV(0), IntV(1), IntV(2), IntV(9)},
                         {StrV("T")}, {Missing, StrV("High")})
    \/ CreateCustomerComplaint(One, {IntV(1)}, {IntV(0), IntV(1), IntV(9)})
    \/ InitializeDatabase
    \/ DbGetCustomerComplaints
    \/ Tick

SpecStore == Init /\ [][NextStore]_vars

Days == {5, 10, 15, 20}

\* the transaction filters over a growing transactions table
NextTransactions ==
    \/ InsertTransaction({1, 2}, {10, 20}, {"Deposit", "Withdrawal"})
    \/ DbGetTransactionsByDateRange({1, 2}, Days)
    \/ DbGetTransactionsByType({1, 2}, {"Deposit", "deposit", "Nonexistent"})
    \/ DbGetAllAccountTransactions({1, 2})

SpecTransactions == Init /\ [][NextTransactions]_vars

\* every list read, over growing tables
NextLists ==
    \/ InsertAccount({1})
    \/ InsertTransaction({1}, {10}, {"Deposit"})
    \/ DbCreateComplaint({IntV(1)}, {IntV(1)}, {StrV("T")}, {Missing})
    \/ Tick
    \/ DbGetCustomerAccounts
    \/ DbGetAllAccountTransactions({1})
    \/ DbGetTransactionsByDateRange({1}, {5, 15})
    \/ DbGetTransactionsByType({1}, {"Deposit"})
    \/ DbGetCustomerComplaints

SpecLists == Init /\ [][NextLists]_vars

\* two callers, each with a session of their own
NextSessions ==
    \/ VerifyCustomer(Sessions, {IntV(1), IntV(MaxId)})
    \/ GetCustomerAccount(Sessions, {IntV(1)}, {Missing})
    \/ GetCustomerAccountBalance(Sessions, {IntV(1)}, {Missing, NumStrV(1)})
    \/ GetCustomerAccountTransactions(Sessions, {NumStrV(1)}, {NumStrV(1), IntV(2)},
                                      FewLimits, {Missing})
    \/ GetCustomerAccountTransactionsByDate(Sessions, {NumStrV(1)}, {NumStrV(1)}, Dates)
    \/ GetCustomerAccountTransactionsByType(Sessions, {NumStrV(1)}, {NumStrV(1)}, Types)
    \/ GetCustomerComplaint(Sessions, {NumStrV(1), IntV(MaxId)}, FewLimits, {Missing})
    \/ GetCustomerComplaintById(Sessions, {IntV(1)}, {Missing, IntV(1), IntV(2)})
    \/ CreateCustomerComplaint(Sessions, {IntV(1)}, {IntV(1), IntV(9)})

SpecSessions == Init /\ [][NextSessions]_vars

\* the customer ids an offers call may carry: absent, None, falsy and truthy
OfferIds == Ids \cup {Missing, NoneV, StrV(""), StrV("abc"), NumStrV(2),
                      BoolV(FALSE), BoolV(TRUE), FloatV(1)}

\* the offers tool and the offers query, in sessions of any standing
NextOffers ==
    \/ VerifyCustomer(One, {IntV(1), NumStrV(1), IntV(MaxId)})
    \/ GetCurrentOffers(One, OfferIds)
    \/ DbGetCurrentOffers(OfferIds \ {Missing})

SpecOffers == Init /\ [][NextOffers]_vars

\* store methods and tools on each kind of exit (result, not-found, raise),
\* with the garbage collector running when it pleases
NextConnections ==
    \/ VerifyCustomer(One, CoreIds)
    \/ CreateCustomerComplaint(One, {NumStrV(1), IntV(MaxId)}, {IntV(1), IntV(9)})
    \/ GetCustomerComplaintById(One, {NumStrV(1)}, {NumStrV(1), IntV(MaxId)})
    \/ GetCurrentOffers(One, {Missing, NumStrV(1)})
    \/ DbGetCustomerAccount
    \/ DbCreateComplaint({IntV(1), IntV(MaxId)}, {IntV(1), IntV(9)}, {StrV("T")}, {Missing})
    \/ Collect

SpecConnections == Init /\ [][NextConnections]_vars

\* every tool and the store's methods, reads and the one write, over time
NextWrites ==
    \/ VerifyCustomer(One, {NumStrV(1)})
    \/ GetCustomerAccount(One, {NumStrV(1)}, {NumStrV(1)})
    \/ GetCustomerAccountBalance(One, {NumStrV(1)}, {NumStrV(1)})
    \/ GetCustomerAccountTransactions(One, {NumStrV(1)}, {NumStrV(1)}, {Missing}, {Missing})
    \/ GetCustomerAccountTransactionsByDate(One, {NumStrV(1)}, {NumStrV(1)}, {Missing})
    \/ GetCustomerAccountTransactionsByType(One, {NumStrV(1)}, {NumStrV(1)}, {StrV("Deposit")})
    \/ GetCustomerComplaint(One, {NumStrV(1)}, {Missing}, {Missing})
    \/ GetCustomerComplaintById(One, {NumStrV(1)}, {NumStrV(1), IntV(MaxId)})
    \/ CreateCustomerComplaint(One, {NumStrV(1), IntV(MaxId)}, {IntV(1), IntV(9)})
    \/ GetCurrentOffers(One, {NumStrV(1)})
    \/ DbCreateComplaint({IntV(2), IntV(MaxId)}, {IntV(2), IntV(9)}, {StrV("T")}, {Missing})
    \/ DbGetCustomerComplaints
    \/ Tick

SpecWrites == Init /\ [][NextWrites]_vars

\* two customers known to the store
TwoCustomers == {NumStrV(1), NumStrV(2)}

\* one session verifying as either customer and asking about either one
NextBinding ==
    \/ VerifyCustomer(One, TwoCustomers \cup {IntV(MaxId)})
    \/ GetCustomerAccount(One, TwoCustomers \cup {IntV(1)}, {Missing, NumStrV(1)})
    \/ GetCustomerAccountBalance(One, TwoCustomers, TwoCustomers)
    \/ GetCustomerAccountTransactions(One, TwoCustomers, TwoCustomers \cup {Missing},
                                      {Missing}, {Missing})

SpecBinding == Init /\ [][NextBinding]_vars

\* the cart tools of the customer service agent
NextCart ==
    \/ ModifyCart
    \/ GetCartContents

SpecCart == Init /\ [][NextCart]_vars

\* requests of one session arriving in any pattern
NextLimiter ==
    \/ RateLimitCallback
    \/ Elapse

SpecLimiter == Init /\ [][NextLimiter]_vars

(***************************************************************************)
(* Properties                                                              *)
(***************************************************************************)
ToolOps == {"verify_customer", "get_customer_account", "get_customer_account_balance",
            "get_customer_account_transactions",
            "get_customer_account_transactions_by_date",
            "get_customer_account_transactions_by_type", "get_customer_complaint",
            "get_customer_complaint_by_id", "create_customer_complaint"}

GatedOps == ToolOps \ {"verify_customer"}

\* the state bag of the session of the last call (no gated tool writes it)
Bag == state[call.session]

\* customer_verified is unset or false
Unverified == ~Truthy(Get(Bag, "customer_verified"))

\* the fixed refusal of an unverified session
Refused ==
    /\ resp.raised = ""
    /\ resp.env.success = FALSE
    /\ resp.env.error = Error(NotVerified, NoneV, NoneV)
    /\ queries = <<>>

\* the customers row with this id, if any
Present(v) == v.k \in {"int", "numstr"} /\ \E r \in customers : r.id = v.n

\* C1: every tool other than verify_customer (and the product and offer
\* reads), called in a session whose customer_verified is unset or false,
\* returns success=false with the re-verification message and makes no call
\* to the database.
C1_UnverifiedRefused ==
    (call.op \in GatedOps /\ call.bag /\ Unverified) => Refused

AccountTools == {"get_customer_account_balance", "get_customer_account_transactions",
                 "get_customer_account_transactions_by_date",
                 "get_customer_account_transactions_by_type"}

IsId(v) == v.k \in {"int", "numstr"}

AccountExists(a) == IsId(a) /\ \E r \in accounts : r.id = a.n

\* account a exists and belongs to someone other than c
ForeignAccount(c, a) ==
    /\ AccountExists(a)
    /\ ~ \E r \in accounts : r.id = a.n /\ IsId(c) /\ r.customer_id = c.n

\* an envelope with the account id blanked out of its message
Blank(env) == [env EXCEPT !.error.a1 = NoneV]

\* C5: for an account A that exists but does not belong to C, the store's
\* get_customer_account(C, A) returns absent, and each account-addressing
\* tool called with (C, A) returns a failure envelope that carries no balance
\* or transaction data and is the envelope of the same call with an account
\* id that does not exist, the id in the message apart.
C5_ForeignAccountOpaque ==
    LET C == call.customer_id
        A == call.params["account_id"]
    IN  ForeignAccount(C, A) =>
          /\ call.op = "db.get_customer_account" => ret.one = {}
          /\ (call.op \in AccountTools /\ call.bag) =>
                /\ resp.raised = ""
                /\ resp.env.success = FALSE
                /\ ~resp.env.error.none
                /\ resp.env.balance = <<>>
                /\ resp.env.transactions = <<>>
                /\ resp.env.account = <<>>
                /\ \A B \in Ids :
                      (Truthy(B) /\ ~AccountExists(B)) =>
                         LET o == ToolOutcome(call.op, Bag, C, TRUE,
                                    [call.params EXCEPT !["account_id"] = B]).out
                         IN  /\ o.raised = ""
                             /\ Blank(o.env) = Blank(resp.env)
                             /\ (o.env.error.a1 = Fmt(B)) <=> (resp.env.error.a1 = Fmt(A))

\* a verified customer 1 asks for the balance of the account of customer 2
C5_Witness ==
    /\ call.op = "get_customer_account_balance"
    /\ call.customer_id = IntV(1)
    /\ call.params["account_id"] = IntV(2)
    /\ Bag["customer_verified"] = BoolV(TRUE)
    /\ resp.env.error = Error(AccountNotFound, NumStrV(2), NumStrV(1))
    /\ queries = <<"get_customer_account">>

\* complaint k exists and belongs to someone other than c
ForeignComplaint(c, k) ==
    /\ IsId(k)
    /\ \E r \in complaints : r.id = k.n /\ ~(IsId(c) /\ r.customer_id = c.n)

\* C6: whenever a customer_id is supplied to get_complaint_by_id (0 included)
\* the lookup is scoped to it: a complaint of another customer is not found,
\* by the store method and by the tool get_customer_complaint_by_id alike.
C6_ScopedWheneverSupplied ==
    LET C == call.customer_id
        K == call.params["complaint_id"]
    IN  /\ (call.op = "db.get_complaint_by_id" /\ C # NoneV /\ ForeignComplaint(C, K)) =>
              ret.one = {}
        /\ (call.op = "get_customer_complaint_by_id" /\ call.bag /\ ForeignComplaint(C, K)) =>
              /\ resp.raised = ""
              /\ resp.env.success = FALSE
              /\ resp.env.error = Error(
                    "Complaint {complaint_id} not found or doesn't belong to customer {customer_id}",
                    Fmt(K), Fmt(C))

\* C7: in every envelope success is false whenever error is set, also in one
\* constructed with success=true and an error.
C7_ErrorImpliesFailure ==
    resp.raised = "" => (~resp.env.error.none => resp.env.success = FALSE)

\* an envelope constructed with success=true and an error
C7_Witness ==
    /\ call.op = "ToolResponse(success=True)"
    /\ ~resp.env.error.none
    /\ resp.env.success = FALSE

\* C8: no tool propagates an exception to its caller; a call that fails
\* returns an envelope with success=false and an error.
C8_NoPropagation ==
    call.op \in ToolOps =>
        /\ resp.raised = ""
        /\ resp.env.success = FALSE => ~resp.env.error.none

\* rows [O, O+L) of an ordered sequence, counting rows from 0
Rows(seq, O, L) ==
    LET idx == {i \in 1..Len(seq) : O <= i - 1 /\ i - 1 < O + L}
    IN  [j \in 1..Cardinality(idx) |-> seq[(CHOOSE m \in idx : \A i \in idx : m <= i) + j - 1]]

\* C9: get_account_transactions(A, limit=L, offset=O) never returns more than
\* L rows, and returns exactly rows [O, O+L) of the transactions of A ordered
\* by transaction date descending, for every integer L and O.
C9_PageOfOrdered ==
    call.op = "db.get_account_transactions" =>
        LET A == call.params["account_id"]
            L == call.params["limit"].n
            O == call.params["offset"].n
            full == OrderTx({t \in transactions : t.account_id = A.n})
        IN  /\ Len(ret.many) <= L
            /\ ret.many = Rows(full, O, L)

PagingOps == {"get_customer_account_transactions", "get_customer_complaint"}

\* supplied, and not an integer
NonInteger(v) == v # Missing /\ v.k # "int"

\* the call got as far as the pagination parameters
ReachedPagination ==
    /\ call.bag
    /\ resp.raised = ""
    /\ resp.env.error.text \notin {NotVerified, AccountNotFound,
                                   "Customer not found with ID: {customer_id}"}

\* C10: in get_customer_account_transactions and get_customer_complaint limit
\* defaults to 10 and offset to 0, and a supplied limit or offset that is not
\* an integer yields the parameter-format error, never a coerced integer.
C10_NonIntegerRejected ==
    (call.op \in PagingOps /\ ReachedPagination) =>
        LET limit == call.params["limit"]
            offset == call.params["offset"]
        IN  IF NonInteger(limit) \/ NonInteger(offset)
            THEN /\ resp.env.success = FALSE
                 /\ resp.env.error = Error(BadPagination, NoneV, NoneV)
            ELSE /\ resp.env.success = TRUE
                 /\ resp.env.pagination[1].limit = IF limit = Missing THEN 10 ELSE limit.n
                 /\ resp.env.pagination[1].offset = IF offset = Missing THEN 0 ELSE offset.n

\* the parameters each tool needs from the parameter bag
Required(op) ==
    CASE op \in {"get_customer_account_balance", "get_customer_account_transactions"} ->
            {"account_id"}
      [] op = "get_customer_account_transactions_by_date" -> {"account_id", "start_date"}
      [] op = "get_customer_account_transactions_by_type" ->
            {"account_id", "transaction_type"}
      [] op = "get_customer_complaint_by_id" -> {"complaint_id"}
      [] op = "create_customer_complaint" -> {"type_id", "title", "description"}
      [] OTHER -> {}

\* the needed parameters that the bag of the last call does not hold
Absent == {f \in Required(call.op) : call.params[f] = Missing}

\* the fields an error message names
Named(err) ==
    CASE err.text = "account_id and start_date parameters are required" ->
            {"account_id", "start_date"}
      [] err.text = "account_id and transaction_type parameters are required" ->
            {"account_id", "transaction_type"}
      [] err.text = "complaint_id parameter is required" -> {"complaint_id"}
      [] err.text = "Missing required fields: " ->
            {err.names[i] : i \in 1..Len(err.names)}
      [] OTHER -> {}

\* the call got past the checks that come before the parameters: the
\* verified gate of the balance and transaction tools, and the customer
\* lookup of complaint creation
PastGate ==
    /\ call.bag
    /\ call.op \in {"get_customer_account_balance", "get_customer_account_transactions"}
          => IsVerified(Bag)
    /\ call.op = "create_customer_complaint" => Present(call.customer_id)

\* C11: every tool that needs parameters from the parameter bag checks their
\* presence before use: when one is missing it returns, without any call to
\* the database, a failure envelope whose error names the missing fields.
C11_MissingParametersShortCircuit ==
    (PastGate /\ Absent # {}) =>
        /\ resp.raised = ""
        /\ resp.env.success = FALSE
        /\ queries = <<>>
        /\ Absent \subseteq Named(resp.env.error)

\* the members of a sequence
Range(seq) == {seq[i] : i \in 1..Len(seq)}

\* C12: create_customer_complaint for an existing customer, with any
\* non-empty subset of type_id, title and description absent from the
\* parameter bag, returns success=false with an error that lists exactly the
\* absent fields, all in the one response, and inserts no complaint row.
C12_AbsentFieldsListedTogether ==
    [][(/\ call'.op = "create_customer_complaint"
        /\ call'.bag
        /\ Present(call'.customer_id)
        /\ \E f \in Range(required_fields) : call'.params[f] = Missing) =>
            LET absent == {f \in Range(required_fields) : call'.params[f] = Missing}
                error == resp'.env.error
            IN  /\ resp'.raised = ""
                /\ resp'.env.success = FALSE
                /\ error.text = "Missing required fields: "
                /\ Range(error.names) = absent
                /\ Len(error.names) = Cardinality(absent)
                /\ complaints' = complaints]_vars

\* a call that leaves out two of the three fields
C12_Witness ==
    /\ call.op = "create_customer_complaint"
    /\ call.customer_id = IntV(1)
    /\ call.bag
    /\ call.params["title"] = StrV("T")
    /\ call.params["type_id"] = Missing
    /\ call.params["description"] = Missing
    /\ resp.env.error = ErrorNames("Missing required fields: ", <<"type_id", "description">>)

\* the complaint_types row with this id, if any
KnownType(v) == v.k \in {"int", "numstr"} /\ \E ct \in complaint_types : ct.id = v.n

\* the step is a call, whose record is call', not the passing of a second
IsCall == clock' = clock

\* C13: for an existing customer C and an existing complaint type T,
\* create_complaint(C, T, title, description, P) returns an id no stored
\* complaint had, and get_complaint_by_id(id) right afterwards returns the
\* complaint with customer_id = C, type_id = T, the title and description
\* passed, priority = P ("Medium" when P is omitted), status = "Open" and
\* resolved_at absent.
C13_CreateThenGet ==
    [][(/\ IsCall
        /\ call'.op = "db.create_complaint"
        /\ Present(call'.customer_id)
        /\ KnownType(call'.params["type_id"])) =>
            /\ ret'.exc = ""
            /\ \E id \in ret'.one :
                  /\ ret'.one = {id}
                  /\ id \notin {c.id : c \in complaints}
                  /\ \E got \in db_get_complaint_by_id(IntV(id), NoneV)' :
                        /\ db_get_complaint_by_id(IntV(id), NoneV)' = {got}
                        /\ got.id = id
                        /\ got.customer_id = call'.customer_id.n
                        /\ got.type_id = call'.params["type_id"].n
                        /\ got.title = call'.params["title"]
                        /\ got.description = call'.params["description"]
                        /\ got.priority = IF call'.params["priority"] = Missing
                                          THEN StrV("Medium")
                                          ELSE call'.params["priority"]
                        /\ got.status = "Open"
                        /\ got.resolved_at = NoneV]_vars

\* a complaint of customer 2 created with priority High and read back
C13_Witness ==
    /\ call.op = "db.create_complaint"
    /\ call.customer_id = IntV(2)
    /\ call.params["priority"] = StrV("High")
    /\ ret.one = {3}
    /\ \E got \in db_get_complaint_by_id(IntV(3), NoneV) :
          got.priority = StrV("High") /\ got.customer_id = 2 /\ got.status = "Open"

\* C14: create_complaint with a customer_id that matches no customer, or a
\* type_id that matches no complaint type, fails with a constraint violation
\* and leaves the complaints table as it was; the tool
\* create_customer_complaint, given every required field and a type_id that
\* matches no complaint type, returns success=false with an error.
C14_ConstraintViolation ==
    [][/\ (/\ IsCall
           /\ call'.op = "db.create_complaint"
           /\ ~(Present(call'.customer_id) /\ KnownType(call'.params["type_id"]))) =>
               /\ ret'.exc = "IntegrityError"
               /\ ret'.one = {}
               /\ complaints' = complaints
       /\ (/\ IsCall
           /\ call'.op = "create_customer_complaint"
           /\ call'.bag
           /\ \A f \in Range(required_fields) : call'.params[f] # Missing
           /\ ~KnownType(call'.params["type_id"])) =>
               /\ resp'.raised = ""
               /\ resp'.env.success = FALSE
               /\ ~resp'.env.error.none
               /\ complaints' = complaints]_vars

\* an existing customer, a type that does not exist
C14_Witness ==
    /\ call.op = "db.create_complaint"
    /\ call.customer_id = IntV(1)
    /\ call.params["type_id"] = IntV(9)
    /\ ret.exc = "IntegrityError"
    /\ complaints = SeedComplaints

\* C15: store initialization is idempotent: _initialize_database run on a
\* store that is already initialized, once or again and again, raises no
\* error, leaves every row of every table as it was, and leaves exactly the
\* six seeded complaint types, ids 1..6, with no duplicate.
C15_InitializeIdempotent ==
    [][(IsCall /\ call'.op = "db._initialize_database") =>
          /\ ret'.exc = ""
          /\ tables' = tables
          /\ complaint_types' = default_types
          /\ {ct.id : ct \in complaint_types'} = 1..6
          /\ Cardinality(complaint_types') = 6
          /\ Cardinality({ct.name : ct \in complaint_types'}) = 6]_vars

\* initialization run on a store that holds a complaint created since
C15_Witness ==
    /\ call.op = "db._initialize_database"
    /\ ret.exc = ""
    /\ Cardinality(complaints) = MaxComplaints
    /\ complaint_types = default_types

\* C16: get_transactions_by_date_range(A, start, end) returns exactly the
\* transactions of A with start <= transaction_date <= end, both bounds
\* included, each once; an empty list when start is after end; and for
\* transactions on May 1, 10 and 20 the range May 5..15 gives the one of May 10.
C16_DateRangeInclusive ==
    call.op = "db.get_transactions_by_date_range" =>
        LET A == call.params["account_id"].n
            start == call.params["start_date"].n
            end == call.params["end_date"].n
            within == {t \in transactions : /\ t.account_id = A
                                            /\ start <= t.transaction_date
                                            /\ t.transaction_date <= end}
        IN  /\ ret.exc = ""
            /\ Range(ret.many) = within
            /\ Len(ret.many) = Cardinality(within)
            /\ start > end => ret.many = <<>>
            /\ (transactions = SeedTransactions /\ A = 1 /\ start = 5 /\ end = 15) =>
                  /\ Len(ret.many) = 1
                  /\ ret.many[1].transaction_date = 10

\* a range that ends on the day of a transaction inserted since
C16_Witness ==
    /\ call.op = "db.get_transactions_by_date_range"
    /\ call.params["account_id"] = IntV(1)
    /\ call.params["start_date"] = DateV(5)
    /\ call.params["end_date"] = DateV(10)
    /\ Len(ret.many) = 2
    /\ \A i \in 1..2 : ret.many[i].transaction_date = 10

\* C17: get_transactions_by_type(A, t) returns exactly the transactions of A
\* whose type is the string t, character for character, each once: no row of
\* another account or type, and an empty list, not an error, when A has none.
C17_TypeExact ==
    call.op = "db.get_transactions_by_type" =>
        LET A == call.params["account_id"].n
            t == call.params["transaction_type"].s
            typed == {x \in transactions : x.account_id = A /\ x.type = t}
        IN  /\ ret.exc = ""
            /\ Range(ret.many) = typed
            /\ Len(ret.many) = Cardinality(typed)
            /\ typed = {} => ret.many = <<>>

\* the deposits of account 2 while account 1 has deposits too
C17_Witness ==
    /\ call.op = "db.get_transactions_by_type"
    /\ call.params["account_id"] = IntV(2)
    /\ call.params["transaction_type"] = StrV("Deposit")
    /\ Len(ret.many) = 2
    /\ \E x \in transactions : x.account_id = 1 /\ x.type = "Deposit"
    /\ \E x \in transactions : x.account_id = 2 /\ x.type = "Withdrawal"

\* a is b with some members left out
RECURSIVE IsSubsequence(_, _)
IsSubsequence(a, b) ==
    IF a = <<>> THEN TRUE
    ELSE IF b = <<>> THEN FALSE
    ELSE IF Head(a) = Head(b) THEN IsSubsequence(Tail(a), Tail(b))
    ELSE IsSubsequence(a, Tail(b))

\* no row comes before a row created later
NewestCreatedFirst(rows) ==
    \A i, j \in 1..Len(rows) : i < j => rows[i].created_at >= rows[j].created_at

\* no row comes before a row of a later date, or of the same date created later
NewestTransactionFirst(rows) ==
    \A i, j \in 1..Len(rows) :
        i < j => \/ rows[i].transaction_date > rows[j].transaction_date
                 \/ /\ rows[i].transaction_date = rows[j].transaction_date
                    /\ rows[i].created_at >= rows[j].created_at

TransactionReads == {"db.get_account_transactions", "db.get_transactions_by_date_range",
                     "db.get_transactions_by_type"}

OwnAccount(c, a) ==
    IsId(c) /\ IsId(a) /\ \E r \in accounts : r.id = a.n /\ r.customer_id = c.n

\* C19: in a verified session get_customer_account(C) with an account_id in
\* the parameter bag that belongs to C returns success=true with that one
\* account, and without an account_id returns success=true with the list of
\* all accounts of C.
C19_AccountOrList ==
    (/\ call.op = "get_customer_account"
     /\ IsVerified(Bag)
     /\ Present(call.customer_id)) =>
        LET C == call.customer_id
            A == call.params["account_id"]
        IN  /\ resp.raised = ""
            /\ OwnAccount(C, A) =>
                  /\ resp.env.success = TRUE
                  /\ resp.env.account = <<CHOOSE r \in accounts : r.id = A.n>>
            /\ A = Missing =>
                  /\ resp.env.success = TRUE
                  /\ resp.env.accounts = db_get_customer_accounts(C)

\* C20: in a verified session, for an account A of customer C,
\* get_customer_account_balance(C, account_id=A) returns success=true with
\* the balance stored for A, a currency tag and an as-of timestamp.
C20_BalanceOfOwnAccount ==
    (/\ call.op = "get_customer_account_balance"
     /\ call.bag
     /\ IsVerified(Bag)
     /\ OwnAccount(call.customer_id, call.params["account_id"])) =>
        /\ resp.raised = ""
        /\ resp.env.success = TRUE
        /\ resp.env.balance =
              <<(CHOOSE r \in accounts : r.id = call.params["account_id"].n).balance>>
        /\ resp.env.currency # ""
        /\ resp.env.as_of # <<>>

\* C21: the session state bag is written by verify_customer only: every
\* other bank tool, on every exit path, leaves every key of every session as
\* it was, and verify_customer writes the state of its own session only.
C21_OnlyVerifyWritesState ==
    [][(IsCall /\ call'.session \in Sessions) =>
          /\ call'.op # "verify_customer" => state' = state
          /\ \A s \in Sessions \ {call'.session} : state'[s] = state[s]]_vars

\* a tool raises in the second session while the first one is verified
C21_Witness ==
    /\ call.op = "get_customer_complaint_by_id"
    /\ call.session = "s2"
    /\ resp.raised = "UnboundLocalError"
    /\ state["s1"]["customer_verified"] = BoolV(TRUE)
    /\ state["s2"]["customer_verified"] = BoolV(FALSE)

\* the offer synthesized for a customer
IsPersonal(offer) == offer.id = 100

\* what get_current_offers is to return for customer id v: the base offers,
\* followed for a stored customer by the one offer naming the first name
Expected(v) ==
    IF Present(v)
    THEN Append(base_offers,
                Offer(100, "Special Offer for {first_name}",
                      split((CHOOSE r \in customers : r.id = v.n).name)[1],
                      "Exclusive deal just for you!"))
    ELSE base_offers

\* C22: get_current_offers returns the three base offers when no customer id
\* is supplied; for the id of an existing customer the base offers and exactly
\* one personalized offer naming the customer's first name, on every call;
\* and for a supplied id that matches no customer the tool returns
\* success=false.
C22_OffersForCustomer ==
    /\ (/\ call.op = "db.get_current_offers"
        /\ (call.customer_id = NoneV \/ Present(call.customer_id))) =>
          ret.many = Expected(call.customer_id)
    /\ (call.op = "get_current_offers" /\ call.bag) =>
          LET v == call.params["customer_id"]
          IN  /\ resp.raised = ""
              /\ (v = Missing \/ Present(v)) =>
                    /\ resp.env.success = TRUE
                    /\ resp.env.offers = Expected(v)
              /\ (v \notin {Missing, NoneV} /\ ~Present(v)) =>
                    resp.env.success = FALSE

\* C29: in every success envelope of get_current_offers, personalized is true
\* exactly when the offer list holds the synthesized offer (id 100), and
\* customer_id is echoed exactly when personalized is true, for every
\* customer_id supplied, falsy values included.
C29_PersonalizedFlag ==
    (call.op = "get_current_offers" /\ resp.raised = "" /\ resp.env.success) =>
        LET offers == resp.env.offers
            personal == \E i \in 1..Len(offers) : IsPersonal(offers[i])
        IN  /\ resp.env.personalized = <<personal>>
            /\ (resp.env.customer_id # NoneV) <=> personal

\* C23: every store operation acquires its own connection and closes it on
\* every exit path (result, not-found, raise): once a call has returned, no
\* connection that call opened is still open.
C23_ConnectionsReleased ==
    call # NoCall => connections = 0

\* the complaints the store held before any operation ran
Seeded(r) == r \in SeedComplaints

\* C24: over any sequence of store and tool operations the store changes only
\* by create_complaint adding complaint rows: no customer, account,
\* transaction, complaint type or existing complaint is updated or deleted,
\* and every complaint created stays "Open" with no resolved_at ever after.
C24_StoreOnlyGrowsByComplaints ==
    [][/\ customers' = customers
       /\ accounts' = accounts
       /\ transactions' = transactions
       /\ complaint_types' = complaint_types
       /\ complaints \subseteq complaints'
       /\ complaints' # complaints =>
             call'.op \in {"db.create_complaint", "create_customer_complaint"}
       /\ \A r \in complaints' :
             ~Seeded(r) => r.status = "Open" /\ r.resolved_at = NoneV]_vars

C24_Witness ==
    /\ \E r \in complaints : ~Seeded(r) /\ r.status = "Open" /\ r.created_at < clock
    /\ call.op = "get_customer_complaint"
    /\ resp.env.success

\* C27: verification is bound to the verified customer: a gated account
\* operation (get_customer_account, get_customer_account_balance,
\* get_customer_account_transactions) returns success only when its
\* customer_id argument equals the customer_id the session state holds from
\* the most recent successful verification; for another customer it returns
\* neither success nor that customer's account data.
C27_BoundToVerifiedCustomer ==
    (call.op \in GatedOps /\ resp.raised = "") =>
        \/ call.customer_id = state[call.session]["customer_id"]
        \/ /\ ~resp.env.success
           /\ resp.env.transactions = <<>>
           /\ resp.env.account = <<>>
           /\ resp.env.accounts = <<>>
           /\ resp.env.balance = <<>>

\* C28: a failed create_customer_complaint persists nothing: whenever the tool
\* returns success=false the complaints table is as before the call, and a
\* new complaint row exists only if the tool returned success=true.
C28_FailedCreatePersistsNothing ==
    [][(IsCall /\ call'.op = "create_customer_complaint" /\ resp'.raised = "") =>
          (complaints' # complaints <=> resp'.env.success)]_vars

\* every product id a call may name
Pids == {PRODUCT_CATALOG[i].product_id : i \in 1..Len(PRODUCT_CATALOG)} \cup {"prd404"}

InCatalog(pid) == \E i \in 1..Len(PRODUCT_CATALOG) : PRODUCT_CATALOG[i].product_id = pid

Occurrences(list, x) == Cardinality({i \in 1..Len(list) : list[i] = x})

\* the quantity of product pid in a cart, 0 when the cart has no such item
QuantityIn(cart, pid) ==
    IF \E i \in 1..Len(cart) : cart[i].product_id = pid
    THEN cart[CHOOSE i \in 1..Len(cart) : cart[i].product_id = pid].quantity
    ELSE 0

\* removals first, then one more for each catalogued occurrence in add
ExpectedQuantity(old, add, remove, pid) ==
    (IF Occurrences(remove, pid) > 0 THEN 0 ELSE QuantityIn(old, pid))
    + (IF InCatalog(pid) THEN Occurrences(add, pid) ELSE 0)

\* C25: modify_cart(customer, add, remove) first removes every product id of
\* remove found in the customer's cart, then for each product id of add that
\* is in the catalog inserts it with quantity 1 or increments the item's
\* quantity by exactly 1, ignoring ids outside the catalog; the cart it
\* returns is the cart a following get_cart_contents(customer) returns; and
\* get_cart_contents of a customer with no cart returns an empty cart.
C25_ModifyCart ==
    [][/\ cart_call'.op = "modify_cart" =>
             LET c == cart_call'.customer_id
                 old == cart_get(CUSTOMER_CART, c)
             IN  /\ \A pid \in Pids :
                        QuantityIn(cart_ret', pid) =
                            ExpectedQuantity(old, cart_call'.add, cart_call'.remove, pid)
                 /\ \A i \in 1..Len(cart_ret') : cart_ret'[i].product_id \in Pids
                 /\ cart_ret' = get_cart_contents(CUSTOMER_CART', c)
       /\ (/\ cart_call'.op = "get_cart_contents"
           /\ cart_call'.customer_id \notin DOMAIN CUSTOMER_CART) =>
             cart_ret' = <<>>]_vars

C25_Witness ==
    /\ cart_call.op = "modify_cart"
    /\ cart_call.add = <<"prd001", "prd404">>
    /\ cart_call.remove = <<"prd002">>
    /\ QuantityIn(cart_ret, "prd001") = 2
    /\ QuantityIn(cart_ret, "prd002") = 0
    /\ Len(cart_ret) = 1

\* a cart with at most one item per product, each of quantity >= 1 and of a
\* catalogued product
WellFormedCart(cart) ==
    /\ \A i, j \in 1..Len(cart) : cart[i].product_id = cart[j].product_id => i = j
    /\ \A i \in 1..Len(cart) : cart[i].quantity >= 1 /\ InCatalog(cart[i].product_id)

\* C30: after any sequence of modify_cart and get_cart_contents calls from
\* the initial CUSTOMER_CART, every customer's cart has at most one item per
\* product_id, every item has quantity >= 1 and a product_id of the catalog,
\* and a modify_cart call for one customer leaves every other customer's cart
\* unchanged.
C30_CartsWellFormedAndIsolated ==
    [][/\ \A c \in DOMAIN CUSTOMER_CART' : WellFormedCart(CUSTOMER_CART'[c])
       /\ \A c \in DOMAIN CUSTOMER_CART :
             c # cart_call'.customer_id =>
                 c \in DOMAIN CUSTOMER_CART' /\ CUSTOMER_CART'[c] = CUSTOMER_CART[c]]_vars

C30_Witness ==
    /\ cart_call.op = "modify_cart"
    /\ cart_call.customer_id = "customer-002"
    /\ DOMAIN CUSTOMER_CART = {"customer-001", "customer-002"}
    /\ Len(CUSTOMER_CART["customer-002"]) = 2
    /\ CUSTOMER_CART["customer-001"] = InitialCart["customer-001"]
    /\ QuantityIn(CUSTOMER_CART["customer-002"], "prd001") = MaxQuantity
    /\ QuantityIn(CUSTOMER_CART["customer-002"], "prd002") = 2

\* C26: rate_limit_callback limits the requests per minute: for one session
\* state, in any interval of RATE_LIMIT_SECS (60) seconds at most RPM_QUOTA
\* (10) invocations of the callback return, for every arrival pattern.
C26_AtMostQuotaPerInterval ==
    Len(returns) <= RPM_QUOTA

====
